---- MODULE Spec2Model ----
(***************************************************************************)
(* Relevance ranking, budget-constrained context assembly and register    *)
(* reconciliation of the Modbus register extractor                         *)
(* (attached_assets/extractorv2_*.py).                                     *)
(*                                                                         *)
(* Conventions of the model                                                *)
(*  - a relevance score is an integer number of tenths (8.0 is 80);        *)
(*  - a text is the sequence of its lines and a line the sequence of its   *)
(*    words, the words taken from a small vocabulary whose lengths and     *)
(*    regular-expression matches are tabulated;                            *)
(*  - a chunk carries the length of its text; a context is the sequence    *)
(*    of the parts joined into it, each part a record [kind, page, len],   *)
(*    and its length is the sum of the part lengths;                       *)
(*  - a None cell is the string "None", a missing title the empty line,    *)
(*    a None row the row of the single word "<None row>".                  *)
(*  - a value of the extractor's JSON is a record [t, v] of its Python     *)
(*    type and its number or length.                                       *)
(***************************************************************************)
EXTENDS Integers, Sequences, FiniteSets, TLC

VARIABLES
    pc,               \* position of the modelled call
    structured_data,  \* score_and_rank_content: structured_data["pages"]
    chunks,           \* assemble_extraction_context: chunks (ranked)
    document_hints,   \* assemble_extraction_context: document_hints
    max_tokens,       \* assemble_extraction_context: max_tokens
    max_chars,
    high_relevance, medium_relevance, low_relevance,
    context_parts, current_length, included_pages,
    idx,              \* index of the next chunk of the running for loop
    outcome,          \* "none", "returned" or the exception raised
    context_text,     \* returned context ("".join(context_parts))
    chunk_info,       \* returned summary
    registers,        \* validate_and_deduplicate: registers
    cleaned,          \* outcome and value of validate_and_deduplicate(registers)
    cleaned_twice,    \* the same for registers + registers
    register_table,   \* outcome and registers of ai_parse_data, lines 830-849
    raw_table,        \* _score_table_structure: table (table["raw"])
    table_score,      \* outcome and value of _score_table_structure(raw_table)
    request,          \* parse_pdf: filename and size of the uploaded file
    backend,          \* what extract_text_from_pdf and ai_parse_data give
    started,          \* the collaborators parse_pdf has called
    response          \* HTTP status and detail of parse_pdf's answer

vars == <<pc, structured_data, chunks, document_hints, max_tokens, max_chars,
          high_relevance, medium_relevance, low_relevance, context_parts,
          current_length, included_pages, idx, outcome, context_text, chunk_info,
          registers, cleaned, cleaned_twice, register_table,
          raw_table, table_score, request, backend, started, response>>

inputVars == <<structured_data, chunks, document_hints, max_tokens>>
tierVars == <<max_chars, high_relevance, medium_relevance, low_relevance>>
walkVars == <<context_parts, current_length, included_pages>>
resultVars == <<outcome, context_text, chunk_info>>
reconcileVars == <<registers, cleaned, cleaned_twice, register_table>>
tableVars == <<raw_table, table_score>>
handlerVars == <<request, backend, started, response>>

-----------------------------------------------------------------------------
(* Bounds of the model *)

MaxHigh == 3
MaxMedium == 2
MaxLow == 11
MaxSmallLow == 2
MaxTokenSteps == 3
TokenStep == 40
PatLen == 2
MaxHints == 3
MaxPages == 3
MaxRegs == 3
MaxAddrRows == 3
MaxRegisterWords == 6
MaxModbusWords == 4

\* rows of the register table and mentions of "register" in the scenario
ScenarioRows == 25
MaxMentions == 4

\* pages of an uploaded document
MaxDocPages == 2

-----------------------------------------------------------------------------
(* Program constants *)

HighThreshold == 80          \* relevance_score > 8.0
MediumThreshold == 30        \* 3.0 < relevance_score
MediumCeilPct == 85          \* max_chars * 0.85
LowGatePct == 40             \* max_chars * 0.4
LowCeilPct == 60             \* max_chars * 0.6
LowGateHigh == 3             \* len(high_relevance) < 3
LowLimit == 10               \* low_relevance[:10]
HighHeadLen == 158           \* HIGH block without page digits, score, title
SectionLineLen == 10         \* "Section: " and "\n"
MediumHeadLen == 150         \* MEDIUM block without page digits
LowHeadLen == 16             \* LOW block without page digits
HintsHeadLen == 29           \* "\n[DOCUMENT ADDRESSING HINTS]\n"
DefaultMaxTokens == 80000    \* max_tokens: int = 80000

-----------------------------------------------------------------------------
(* Strings *)

None == "None"

\* len(w) of the words of the model's vocabulary
StrLen(w) ==
    CASE w \in {""} -> 0
      [] w \in {"A", "|"} -> 1
      [] w \in {"h1", "h2", "h3"} -> 2
      [] w \in {"the", "R/W"} -> 3
      [] w \in {"Name", "Type", "0x10"} -> 4
      [] w \in {"40001", "40002", "40003", "Volts"} -> 5
      [] w \in {"modbus"} -> 6
      [] w \in {"address", "Address"} -> 7
      [] w \in {"register", "OVERVIEW", "APPENDIX"} -> 8
      [] w \in {"REGISTERS"} -> 9
      [] w \in {"[TABLE DATA]"} -> 12

RECURSIVE WordsLen(_)
WordsLen(l) == IF l = <<>> THEN 0 ELSE StrLen(Head(l)) + WordsLen(Tail(l))

\* len(" ".join(l)): a line is the sequence of its words
LineLen(l) == IF l = <<>> THEN 0 ELSE WordsLen(l) + Len(l) - 1

RECURSIVE LinesLen(_)
LinesLen(t) == IF t = <<>> THEN 0 ELSE LineLen(Head(t)) + LinesLen(Tail(t))

\* len("\n".join(t)): a text is the non-empty sequence of its lines, the
\* empty text the single empty line
TextLen(t) == LinesLen(t) + Len(t) - 1

\* len(str(n)) of a page number
Digits(n) == IF n < 10 THEN 1 ELSE IF n < 100 THEN 2 ELSE 3

\* len(f"{score:.1f}") of a score in tenths
ScoreStrLen(s) == IF s < 100 THEN 3 ELSE IF s < 1000 THEN 4 ELSE 5

RECURSIVE SumLens(_)
\* len("".join(parts))
SumLens(parts) ==
    IF parts = <<>> THEN 0 ELSE Head(parts).len + SumLens(Tail(parts))

-----------------------------------------------------------------------------
(* Words: what the program's string operations give on the vocabulary *)

\* w.lower()
Lower(w) ==
    CASE w = "OVERVIEW" -> "overview"
      [] w = "REGISTERS" -> "registers"
      [] w = "APPENDIX" -> "appendix"
      [] w = "A" -> "a"
      [] w = "Address" -> "address"
      [] w = "Name" -> "name"
      [] w = "Type" -> "type"
      [] w = "R/W" -> "r/w"
      [] w = "Volts" -> "volts"
      [] w = "[TABLE DATA]" -> "[table data]"
      [] OTHER -> w

\* lw.count(kw) for a lower-case word lw
Occurs(kw, lw) ==
    CASE kw = "register" -> IF lw \in {"register", "registers"} THEN 1 ELSE 0
      [] kw = "modbus" -> IF lw = "modbus" THEN 1 ELSE 0
      [] kw = "address" -> IF lw = "address" THEN 1 ELSE 0
      [] kw = "r/w" -> IF lw = "r/w" THEN 1 ELSE 0
      [] kw = "appendix" -> IF lw = "appendix" THEN 1 ELSE 0
      [] OTHER -> 0

\* truthiness of a cell: None and "" are false
Truthy(x) == x \notin {None, ""}

\* truthiness of a list (a row, a table, a title line): the empty one is false
NonEmpty(x) == x # <<>>

\* a row that is None, told from every row of cells by its single word
NoneRow == <<"<None row>">>

\* truthiness of a row: None and the row of no cell are false
RowTruthy(row) == row # <<>> /\ row # NoneRow

\* no summary yet
NoSummary == [total |-> 0, high |-> 0, medium |-> 0, low |-> 0, included |-> <<>>, size |-> 0]

\* no section title (None)
NoTitle == <<>>

\* the single-word patterns of strong_patterns: \bmodbus\b, \b40[0-9]{3,4}\b,
\* \br/?w\b, 0x[0-9a-f]{2,4}\b
StrongWord(lw) == lw \in {"modbus", "40001", "40002", "40003", "r/w", "0x10"}

\* re.search(r'0x[0-9a-f]{2,4}', lw)
HexWord(lw) == lw = "0x10"

\* ^(0x[0-9a-f]+|[34]0[0-9]{2,4}|[0-9]{1,5})$ on a stripped cell
AddressWord(w) == w \in {"40001", "40002", "40003", "0x10"}

\* ^\d+\.?\d*\.?\d*$
NumberWord(w) == w \in {"40001", "40002", "40003"}

\* ^[A-Z]+$
CapsWord(w) == w \in {"OVERVIEW", "REGISTERS", "APPENDIX", "A"}

\* the word begins with a letter, with a \w character
StartsWithLetter(w) ==
    w \in {"the", "register", "modbus", "address", "OVERVIEW", "REGISTERS", "APPENDIX",
           "A", "Address", "Name", "Type", "R/W", "Volts", "h1", "h2", "h3"}
StartsWithWordChar(w) == StartsWithLetter(w) \/ w \in {"40001", "40002", "40003", "0x10"}

\* a line of blank words only
BlankLine(l) == \A i \in 1..Len(l) : l[i] = ""

RECURSIVE Flatten(_)
\* the words of a text in reading order
Flatten(t) == IF t = <<>> THEN <<>> ELSE Head(t) \o Flatten(Tail(t))

RECURSIVE Count(_, _)
\* text_lower.count(kw), the words being w.lower()
Count(kw, words) ==
    IF words = <<>> THEN 0 ELSE Occurs(kw, Lower(Head(words))) + Count(kw, Tail(words))

\* kw in text.lower()
Contains(kw, words) == Count(kw, words) > 0

Min(a, b) == IF a < b THEN a ELSE b

-----------------------------------------------------------------------------
(* Stage 6: validate_and_deduplicate, and its call in ai_parse_data.
   A JSON value is a record [t, v]: its Python type and, for a number, the
   number, for a string, its length. An item of the register list is a
   record: isdict tells a dict from any other value, id tells two dicts of
   equal address, name and description apart (their other fields), and each
   of address, name, description, datatype is the value under that key, or
   Missing. *)

Missing == [t |-> "missing", v |-> 0]
NoneVal == [t |-> "None", v |-> 0]
IntVal(n) == [t |-> "int", v |-> n]
TrueVal == [t |-> "bool", v |-> 1]
StrVal(n) == [t |-> "str", v |-> n]

\* reg.get(key, default)
Get(val, default) == IF val.t = "missing" THEN default ELSE val

\* isinstance(addr, int): bool is a subclass of int
IsInt(val) == val.t \in {"int", "bool"}

\* len(x) raises TypeError unless x is a string
HasLen(val) == val.t = "str"

\* not isinstance(addr, int) or addr < 0
InvalidAddress(addr) == ~IsInt(addr) \/ addr.v < 0

\* len(reg.get("description", "")) + len(reg.get("name", ""))
InfoScore(reg) == Get(reg.description, StrVal(0)).v + Get(reg.name, StrVal(0)).v

\* one of the two len() calls raises TypeError
LenFails(reg) ==
    \/ ~HasLen(Get(reg.description, StrVal(0)))
    \/ ~HasLen(Get(reg.name, StrVal(0)))

\* the test of replacement, an entry of equal score replacing too
Replaces_OnTie(new_score, existing_score) == new_score >= existing_score

\* if new_score > existing_score
Replaces(new_score, existing_score) == new_score > existing_score

\* the key of seen_addresses an entry is filed under; True == 1 is one key
KeyOf(reg) == Get(reg.address, IntVal(0)).v

\* the place of the key a in seen_addresses, 0 if it is not there
PlaceOf(a, seen) ==
    IF \E k \in 1..Len(seen) : KeyOf(seen[k]) = a
    THEN CHOOSE k \in 1..Len(seen) : KeyOf(seen[k]) = a
    ELSE 0

RECURSIVE Scan(_, _)
\* lines 711-727: the for loop over the items still to visit; seen is
\* seen_addresses.values(), in insertion order
Scan(items, seen) ==
    IF items = <<>> THEN [outcome |-> "returned", value |-> seen]
    ELSE LET reg == Head(items)
             addr == Get(reg.address, IntVal(0))
             k == PlaceOf(addr.v, seen)
         IN IF ~reg.isdict THEN [outcome |-> "AttributeError", value |-> <<>>]
            ELSE IF InvalidAddress(addr) THEN Scan(Tail(items), seen)
            ELSE IF k = 0 THEN Scan(Tail(items), Append(seen, reg))
            ELSE IF LenFails(seen[k]) \/ LenFails(reg)
                 THEN [outcome |-> "TypeError", value |-> <<>>]
            ELSE IF Replaces(InfoScore(reg), InfoScore(seen[k]))
                 THEN Scan(Tail(items), [seen EXCEPT ![k] = reg])
            ELSE Scan(Tail(items), seen)

RECURSIVE InsertByAddress(_, _)
InsertByAddress(x, s) ==
    IF s = <<>> THEN <<x>>
    ELSE IF x.address.v < Head(s).address.v THEN <<x>> \o s
    ELSE <<Head(s)>> \o InsertByAddress(x, Tail(s))

\* the kept entries left in insertion order
SortByAddress_Unsorted(s) == s

RECURSIVE SortByAddress(_)
\* sorted(..., key=lambda x: x["address"]), a stable sort
SortByAddress(s) ==
    IF s = <<>> THEN <<>>
    ELSE InsertByAddress(s[Len(s)], SortByAddress(SubSeq(s, 1, Len(s) - 1)))

\* the items a for loop over the value gets: the elements of a list, the
\* keys of a dict and the characters of a string, none of them a dict
ItemsOf(regs) == regs.items

\* lines 702-732
validate_and_deduplicate(regs) ==
    IF regs.kind = "None" THEN [outcome |-> "TypeError", value |-> <<>>]
    ELSE LET scanned == Scan(ItemsOf(regs), <<>>)
         IN IF scanned.outcome # "returned" THEN scanned
            ELSE IF \E k \in 1..Len(scanned.value) : scanned.value[k].address.t = "missing"
                 THEN [outcome |-> "KeyError", value |-> <<>>]
            ELSE [outcome |-> "returned", value |-> SortByAddress(scanned.value)]

\* ModbusRegister(**reg) validates: the required fields are there, address
\* is an integer that is not negative, name, datatype and description are
\* strings
ValidRegister(reg) ==
    /\ IsInt(reg.address) /\ reg.address.v >= 0
    /\ reg.name.t = "str"
    /\ reg.datatype.t = "str"
    /\ reg.description.t = "str"

\* lines 830-849: any exception of validate_and_deduplicate or of the
\* construction of a ModbusRegister is raised again as ValueError
ParseResult(res) ==
    IF res.outcome = "returned" /\ \A k \in 1..Len(res.value) : ValidRegister(res.value[k])
    THEN [outcome |-> "returned", value |-> res.value]
    ELSE [outcome |-> "ValueError", value |-> <<>>]

NoResult == [outcome |-> "none", value |-> <<>>]
NoRegisters == [kind |-> "list", items |-> <<>>]

\* the variables of validate_and_deduplicate before any call of it
ReconcileIdle ==
    /\ registers = NoRegisters
    /\ cleaned = NoResult
    /\ cleaned_twice = NoResult
    /\ register_table = NoResult

NoScore == [outcome |-> "none", value |-> 0]

\* the variables of _score_table_structure before any call of it
TableIdle ==
    /\ raw_table = <<>>
    /\ table_score = NoScore

NoRequest == [filename |-> <<>>, size |-> 0]
NoBackend == [pages |-> 0, extract |-> "none", parse |-> "none"]
NoResponse == [status |-> 0, detail |-> "none"]

\* the variables of parse_pdf before any request
HandlerIdle ==
    /\ request = NoRequest
    /\ backend = NoBackend
    /\ started = {}
    /\ response = NoResponse

\* the variables of ranking and assembly before any call of them
RankIdle ==
    /\ structured_data = <<>>
    /\ chunks = <<>>
    /\ document_hints = <<>>
    /\ max_tokens = 0
    /\ max_chars = 0
    /\ high_relevance = <<>>
    /\ medium_relevance = <<>>
    /\ low_relevance = <<>>
    /\ context_parts = <<>>
    /\ current_length = 0
    /\ included_pages = <<>>
    /\ idx = 1
    /\ outcome = "none"
    /\ context_text = <<>>
    /\ chunk_info = NoSummary

\* cleaned_registers = validate_and_deduplicate(raw_registers)
Validate ==
    /\ pc = "validate"
    /\ cleaned' = validate_and_deduplicate(registers)
    /\ pc' = "validated"
    /\ UNCHANGED <<registers, cleaned_twice, register_table>>
    /\ UNCHANGED <<inputVars, tierVars, walkVars, idx, resultVars>>
    /\ UNCHANGED <<tableVars, handlerVars>>

\* the same call on the list followed by a copy of itself
ValidateTwice ==
    /\ pc = "validated"
    /\ registers.kind = "list"
    /\ cleaned_twice' = validate_and_deduplicate(
                           [registers EXCEPT !.items = registers.items \o registers.items])
    /\ pc' = "twice"
    /\ UNCHANGED <<registers, cleaned, register_table>>
    /\ UNCHANGED <<inputVars, tierVars, walkVars, idx, resultVars>>
    /\ UNCHANGED <<tableVars, handlerVars>>

\* lines 838-849 of ai_parse_data
BuildTable ==
    /\ pc = "validated"
    /\ register_table' = ParseResult(cleaned)
    /\ pc' = "built"
    /\ UNCHANGED <<registers, cleaned, cleaned_twice>>
    /\ UNCHANGED <<inputVars, tierVars, walkVars, idx, resultVars>>
    /\ UNCHANGED <<tableVars, handlerVars>>

\* a dict with the given values; the other fields make the id
Entry(id, address, name, description, datatype) ==
    [isdict |-> TRUE, id |-> id, address |-> address, name |-> name,
     description |-> description, datatype |-> datatype]

\* a string, a number: anything that is not a dict
NotADict == [isdict |-> FALSE, id |-> 0, address |-> Missing, name |-> Missing,
             description |-> Missing, datatype |-> Missing]

\* the items register lists are made of
ItemPool ==
    { Entry(1, IntVal(1), StrVal(1), StrVal(2), StrVal(5)),
      Entry(2, IntVal(1), StrVal(3), StrVal(2), StrVal(5)),
      Entry(3, IntVal(1), StrVal(2), StrVal(3), StrVal(5)),
      Entry(4, IntVal(2), StrVal(1), StrVal(0), StrVal(5)),
      Entry(5, IntVal(0), StrVal(1), StrVal(1), StrVal(5)),
      Entry(6, IntVal(-1), StrVal(4), StrVal(4), StrVal(5)),
      Entry(7, Missing, StrVal(1), StrVal(2), StrVal(5)),
      Entry(8, StrVal(1), StrVal(1), StrVal(2), StrVal(5)),
      Entry(9, NoneVal, StrVal(1), StrVal(2), StrVal(5)),
      Entry(10, TrueVal, StrVal(2), StrVal(2), StrVal(5)),
      Entry(11, IntVal(2), Missing, StrVal(1), Missing),
      Entry(12, IntVal(1), StrVal(1), NoneVal, StrVal(5)),
      NotADict }

\* lists of items, and values that are no list: a dict of no key or of
\* three, a string of no character or of two, None
RegisterInputs ==
    {[kind |-> "list", items |-> s] : s \in UNION {[1..n -> ItemPool] : n \in 0..MaxRegs}}
    \cup {[kind |-> "dict", items |-> [i \in 1..n |-> NotADict]] : n \in {0, 3}}
    \cup {[kind |-> "str", items |-> [i \in 1..n |-> NotADict]] : n \in {0, 2}}
    \cup {[kind |-> "None", items |-> <<>>]}

InitReconcile ==
    /\ pc = "validate"
    /\ registers \in RegisterInputs
    /\ cleaned = NoResult
    /\ cleaned_twice = NoResult
    /\ register_table = NoResult
    /\ RankIdle
    /\ TableIdle
    /\ HandlerIdle

NextReconcile ==
    \/ Validate
    \/ ValidateTwice
    \/ BuildTable

SpecReconcile == InitReconcile /\ [][NextReconcile]_vars

-----------------------------------------------------------------------------
(* Stage 1: page data and register indicators *)

\* _table_to_text: one line " | ".join(cells) for each non-empty row
RowLine(row) ==
    [k \in 1..(2 * Len(row) - 1) |->
        IF k % 2 = 0 THEN "|"
        ELSE IF Truthy(row[(k + 1) \div 2]) THEN row[(k + 1) \div 2] ELSE ""]

RECURSIVE RowLines(_)
RowLines(table) ==
    IF table = <<>> THEN <<>>
    ELSE IF RowTruthy(Head(table)) THEN <<RowLine(Head(table))>> \o RowLines(Tail(table))
    ELSE RowLines(Tail(table))

table_to_text(table) == IF RowLines(table) = <<>> THEN << <<>> >> ELSE RowLines(table)

\* register_headers
register_headers ==
    {"address", "register", "offset", "name", "datatype", "type", "data type",
     "description", "access", "r/w", "rw", "read", "write", "function", "value",
     "range", "scaling", "parameter", "holding", "sec lvl", "ct"}

\* {str(h).lower().strip() for h in raw[0] if h}
HeaderSet(row) == {Lower(row[i]) : i \in {j \in 1..Len(row) : Truthy(row[j])}}

\* \bregister\s*(address|map|table|list)\b
RegisterPair(words) ==
    \E i \in 1..(Len(words) - 1) :
        Lower(words[i]) = "register" /\ Lower(words[i + 1]) \in {"address", "map", "table", "list"}

has_register_indicators(text, tables) ==
    \/ \E i \in 1..Len(Flatten(text)) : StrongWord(Lower(Flatten(text)[i]))
    \/ RegisterPair(Flatten(text))
    \/ \E i \in 1..Len(tables) :
          /\ NonEmpty(tables[i])
          /\ RowTruthy(tables[i][1])
          /\ Cardinality(HeaderSet(tables[i][1]) \cap register_headers) >= 2

-----------------------------------------------------------------------------
(* Stage 2: relevance scoring and ranking; scores in tenths *)

\* keywords, in the order of the dict
keywords ==
    << <<"modbus", 15>>, <<"register", 10>>, <<"holding", 8>>, <<"coil", 8>>,
       <<"scaling", 12>>, <<"offset", 10>>, <<"data range", 10>>,
       <<"address", 5>>, <<"uint16", 8>>, <<"int16", 8>>, <<"uint32", 8>>,
       <<"int32", 8>>, <<"float32", 8>>, <<"r/w", 7>>, <<"read/write", 7>>,
       <<"function code", 6>>, <<"fc03", 8>>, <<"fc06", 8>>, <<"fc16", 8>>,
       <<"slave", 4>>, <<"master", 4>>, <<"rtu", 5>>, <<"tcp/ip", 4>>,
       <<"parameter", 3>>, <<"setpoint", 4>>, <<"status", 3>> >>

KeywordCap == 50             \* min(count * weight, 5.0)

RECURSIVE DensitySum_Uncapped(_, _)
\* count * weight summed with no cap
DensitySum_Uncapped(kws, words) ==
    IF kws = <<>> THEN 0
    ELSE Count(Head(kws)[1], words) * Head(kws)[2] + DensitySum_Uncapped(Tail(kws), words)

RECURSIVE DensitySum(_, _)
DensitySum(kws, words) ==
    IF kws = <<>> THEN 0
    ELSE Min(Count(Head(kws)[1], words) * Head(kws)[2], KeywordCap)
         + DensitySum(Tail(kws), words)

\* not text_lower.strip()
Blank(text) == \A i \in 1..Len(text) : BlankLine(text[i])

calculate_keyword_density_score(text) ==
    IF Blank(text) THEN 0 ELSE DensitySum(keywords, Flatten(text))

\* the value of the first key of header_scores found in the header
HeaderScore(lh) ==
    CASE lh \in {"address", "register", "registers"} -> 25
      [] lh \in {"name", "type"} -> 10
      [] lh = "r/w" -> 20
      [] OTHER -> 0

RECURSIVE HeadersScore(_)
HeadersScore(row) ==
    IF row = <<>> THEN 0
    ELSE (IF Truthy(Head(row)) THEN HeaderScore(Lower(Head(row))) ELSE 0)
         + HeadersScore(Tail(row))

\* a cell of row[:3] matches address_pattern
AddressLikeRow(row) ==
    /\ RowTruthy(row)
    /\ \E k \in 1..Min(3, Len(row)) : Truthy(row[k]) /\ AddressWord(row[k])

\* the count over all the data rows
AddressLikeCount_AllRows(table) ==
    Cardinality({r \in 2..Len(table) : AddressLikeRow(table[r])})

\* over table[1:min(10, len(table))]
AddressLikeCount(table) ==
    Cardinality({r \in 2..Min(10, Len(table)) : AddressLikeRow(table[r])})

\* line 354: for h in table[0] raises TypeError when the header row is None
ScoreRaises(table) == NonEmpty(table) /\ Len(table) >= 2 /\ table[1] = NoneRow

score_table_structure(table) ==
    IF ~NonEmpty(table) \/ Len(table) < 2 THEN 0
    ELSE HeadersScore(table[1])
         + (IF AddressLikeCount(table) >= 3 THEN 40
            ELSE IF AddressLikeCount(table) >= 1 THEN 20 ELSE 0)
         + (IF Len(table) > 20 THEN 20 ELSE IF Len(table) > 10 THEN 10 ELSE 0)

\* line.strip(): the blank words at both ends dropped
StripLine(l) ==
    IF BlankLine(l) THEN <<>>
    ELSE LET solid == {i \in 1..Len(l) : l[i] # ""}
             first == CHOOSE i \in solid : \A j \in solid : i <= j
             last == CHOOSE i \in solid : \A j \in solid : j <= i
         IN SubSeq(l, first, last)

\* text.strip().split('\n'): the blank lines at both ends dropped
StripText(t) ==
    IF \A i \in 1..Len(t) : BlankLine(t[i]) THEN << <<>> >>
    ELSE LET solid == {i \in 1..Len(t) : ~BlankLine(t[i])}
             first == CHOOSE i \in solid : \A j \in solid : i <= j
             last == CHOOSE i \in solid : \A j \in solid : j <= i
         IN SubSeq(t, first, last)

\* ^(APPENDIX\s+[A-Z]) with re.I
AppendixLine(l) ==
    Len(l) >= 2 /\ Lower(l[1]) = "appendix" /\ StartsWithLetter(l[2])

\* ^(\d+\.?\d*\.?\d*\s+)?[A-Z][A-Z\s]{3,50}$
CapsLine(l) ==
    LET rest == IF Len(l) >= 2 /\ NumberWord(l[1]) THEN Tail(l) ELSE l
    IN /\ rest # <<>>
       /\ \A i \in 1..Len(rest) : CapsWord(rest[i])
       /\ LineLen(rest) >= 4
       /\ LineLen(rest) <= 51

\* ^(Chapter|Section|Appendix)\s+\w with re.I
ChapterLine(l) ==
    Len(l) >= 2 /\ Lower(l[1]) \in {"chapter", "section", "appendix"}
    /\ StartsWithWordChar(l[2])

TitleLine(l) == AppendixLine(l) \/ CapsLine(l) \/ ChapterLine(l)

\* the first of the first 10 lines of text.strip() that looks like a title
extract_section_title(text) ==
    LET lines == [i \in 1..Min(10, Len(StripText(text))) |-> StripLine(StripText(text)[i])]
        hits == {i \in 1..Len(lines) : TitleLine(lines[i])}
    IN IF hits = {} THEN NoTitle
       ELSE lines[CHOOSE i \in hits : \A j \in hits : i <= j]

MaterialityThreshold == 20   \* table_score > 2.0

\* f"\n[TABLE DATA]\n{table['text']}" as lines: it begins with a line break
TableBlock(table) == << <<>>, <<"[TABLE DATA]">> >> \o table_to_text(table)

RECURSIVE TableBlocks_AtLeast(_)
\* the tables that score 2.0 or more
TableBlocks_AtLeast(tables) ==
    IF tables = <<>> THEN <<>>
    ELSE (IF score_table_structure(Head(tables)) >= MaterialityThreshold
          THEN TableBlock(Head(tables)) ELSE <<>>)
         \o TableBlocks_AtLeast(Tail(tables))

RECURSIVE TableBlocks(_)
\* "\n".join(table_texts), table_texts holding the tables that score above 2.0
TableBlocks(tables) ==
    IF tables = <<>> THEN <<>>
    ELSE (IF score_table_structure(Head(tables)) > MaterialityThreshold
          THEN TableBlock(Head(tables)) ELSE <<>>)
         \o TableBlocks(Tail(tables))

\* text_content after lines 272-283
TextContent(page) ==
    IF TableBlocks(page.tables) = <<>> THEN page.text
    ELSE page.text \o Tail(TableBlocks(page.tables))

RECURSIVE TablesScore(_)
TablesScore(tables) ==
    IF tables = <<>> THEN 0
    ELSE score_table_structure(Head(tables)) + TablesScore(Tail(tables))

\* lines 285-292
TitleBonus(title, content) ==
    IF ~NonEmpty(title) THEN 0
    ELSE (IF \E kw \in {"modbus", "register", "appendix", "data point"} : Contains(kw, title)
          THEN 40 ELSE 0)
         + (IF /\ Contains("appendix", title)
               /\ \E kw \in {"register", "address", "scaling"} : Contains(kw, Flatten(content))
            THEN 60 ELSE 0)

\* lines 294-300; no word of the vocabulary begins "scaling:" or "offset:"
PatternBonus(content) ==
    IF \E i \in 1..Len(Flatten(content)) : HexWord(Lower(Flatten(content)[i]))
    THEN 20 ELSE 0

\* lines 261-300: the relevance score of one page
PageScore(page) ==
    (IF page.has_register_indicators THEN 50 ELSE 0)
    + calculate_keyword_density_score(page.text)
    + TablesScore(page.tables)
    + TitleBonus(extract_section_title(TextContent(page)), TextContent(page))
    + PatternBonus(TextContent(page))

\* lines 302-309
DocumentChunk(page) ==
    [text_len |-> TextLen(TextContent(page)),
     page_number |-> page.page_num,
     relevance_score |-> PageScore(page),
     contains_table |-> Len(page.tables) > 0,
     section_title |-> extract_section_title(TextContent(page))]

\* the pages of score 0 left out
PageChunks_DropZero(pages) ==
    SelectSeq([i \in 1..Len(pages) |-> DocumentChunk(pages[i])],
              LAMBDA c : c.relevance_score > 0)

\* lines 258-309: one chunk for each page, in page order
PageChunks(pages) == [i \in 1..Len(pages) |-> DocumentChunk(pages[i])]

RECURSIVE InsertDesc_TiesFirst(_, _)
\* c goes in front of the chunks of its own score
InsertDesc_TiesFirst(c, s) ==
    IF s = <<>> THEN <<c>>
    ELSE IF Head(s).relevance_score > c.relevance_score
         THEN <<Head(s)>> \o InsertDesc_TiesFirst(c, Tail(s))
         ELSE <<c>> \o s

RECURSIVE InsertDesc(_, _)
\* c goes behind every chunk whose score is at least its own
InsertDesc(c, s) ==
    IF s = <<>> THEN <<c>>
    ELSE IF Head(s).relevance_score >= c.relevance_score
         THEN <<Head(s)>> \o InsertDesc(c, Tail(s))
         ELSE <<c>> \o s

RECURSIVE SortByScore(_, _)
\* chunks.sort(key=relevance_score, reverse=True): the sort is stable, chunks
\* of equal score keep the order they had
SortByScore(s, acc) ==
    IF s = <<>> THEN acc ELSE SortByScore(Tail(s), InsertDesc(Head(s), acc))

score_and_rank_content(pages) == SortByScore(PageChunks(pages), <<>>)

\* line 273: _score_table_structure raises on a table of one of the pages
RankRaises(pages) ==
    \E i \in 1..Len(pages) : \E k \in 1..Len(pages[i].tables) :
       ScoreRaises(pages[i].tables[k])

\* the whole call: the ranked chunks, or the TypeError of line 354
Rank ==
    /\ pc = "rank"
    /\ IF RankRaises(structured_data)
       THEN /\ outcome' = "TypeError"
            /\ pc' = "done"
            /\ UNCHANGED chunks
       ELSE /\ chunks' = score_and_rank_content(structured_data)
            /\ pc' = "ranked"
            /\ UNCHANGED outcome
    /\ UNCHANGED <<reconcileVars, tableVars, handlerVars>>
    /\ UNCHANGED <<structured_data, document_hints, max_tokens, tierVars, walkVars,
                   idx, context_text, chunk_info>>

-----------------------------------------------------------------------------
(* Pages given to score_and_rank_content, as extract_structured_content
   makes them *)

RegisterTable ==
    << <<"Address", "Name", "Type", "R/W">>,
       <<"40001", "Volts", None, "">>,
       <<"40002", "Volts">>,
       <<"40003", "Volts", "", "R/W">> >>

\* text and raw tables of the sample pages
PagePool ==
    { [text |-> << <<>> >>, tables |-> <<>>],
      [text |-> << <<"the">> >>, tables |-> <<>>],
      [text |-> << <<"OVERVIEW">>, <<"the">> >>, tables |-> <<>>],
      [text |-> << <<"register">>, <<"the", "register">>, <<"register">> >>, tables |-> <<>>],
      [text |-> << <<"modbus", "register">> >>, tables |-> <<>>],
      [text |-> << <<"APPENDIX", "A">>, <<"register", "address">> >>, tables |-> <<>>],
      [text |-> << <<"the">> >>, tables |-> <<RegisterTable>>] }

\* lines 122-147 of extract_structured_content: pages numbered from 1 in
\* document order, the indicator flag computed from text and tables
PageData(n, content) ==
    [page_num |-> n, text |-> content.text, tables |-> content.tables,
     has_register_indicators |-> has_register_indicators(content.text, content.tables)]

InitRank ==
    /\ pc = "rank"
    /\ \E n \in 0..MaxPages : \E doc \in [1..n -> PagePool] :
          structured_data = [i \in 1..n |-> PageData(i, doc[i])]
    /\ chunks = <<>>
    /\ document_hints = <<>>
    /\ max_tokens = 0
    /\ max_chars = 0
    /\ high_relevance = <<>>
    /\ medium_relevance = <<>>
    /\ low_relevance = <<>>
    /\ context_parts = <<>>
    /\ current_length = 0
    /\ included_pages = <<>>
    /\ idx = 1
    /\ outcome = "none"
    /\ context_text = <<>>
    /\ chunk_info = NoSummary
    /\ ReconcileIdle
    /\ TableIdle
    /\ HandlerIdle

SpecRank == InitRank /\ [][Rank]_vars

-----------------------------------------------------------------------------
(* A page and the same page with one more token in its text, ranked as the
   two pages of a document *)

\* the line with the word w put behind its first k words
WordInLine(l, k, w) == SubSeq(l, 1, k) \o <<w>> \o SubSeq(l, k + 1, Len(l))

\* the text with the word w put behind the first k words of its line i
WordInText(text, i, k, w) == [text EXCEPT ![i] = WordInLine(text[i], k, w)]

\* the text with the word w as a line of its own behind its first i lines
LineInText(text, i, w) == SubSeq(text, 1, i) \o << <<w>> >> \o SubSeq(text, i + 1, Len(text))

\* the texts made of a text by adding the token w at one place
WithToken(text, w) ==
    UNION {{WordInText(text, i, k, w) : k \in 0..Len(text[i])} : i \in 1..Len(text)}
    \cup {LineInText(text, i, w) : i \in 0..Len(text)}

\* strong indicator tokens: a 40xxx address, a hex address
IndicatorTokens == {"40001", "0x10"}

\* the sample pages, and two pages whose first line is an ALL CAPS title
\* holding a keyword, one of them with an indicator already
MonoPool ==
    PagePool \cup
    { [text |-> << <<"REGISTERS">>, <<"the">> >>, tables |-> <<>>],
      [text |-> << <<"REGISTERS">>, <<"40002">> >>, tables |-> <<>>] }

InitMono ==
    /\ pc = "rank"
    /\ \E page \in MonoPool, w \in IndicatorTokens :
          \E changed \in WithToken(page.text, w) :
             structured_data = << PageData(1, page),
                                  PageData(2, [page EXCEPT !.text = changed]) >>
    /\ chunks = <<>>
    /\ document_hints = <<>>
    /\ max_tokens = 0
    /\ max_chars = 0
    /\ high_relevance = <<>>
    /\ medium_relevance = <<>>
    /\ low_relevance = <<>>
    /\ context_parts = <<>>
    /\ current_length = 0
    /\ included_pages = <<>>
    /\ idx = 1
    /\ outcome = "none"
    /\ context_text = <<>>
    /\ chunk_info = NoSummary
    /\ ReconcileIdle
    /\ TableIdle
    /\ HandlerIdle

SpecMono == InitMono /\ [][Rank]_vars

-----------------------------------------------------------------------------
(* Single pages that repeat keywords and carry tables on both sides of the
   score 2.0, given to score_and_rank_content *)

\* n times the word w
Repeat(w, n) == [i \in 1..n |-> w]

\* a text of an optional title line, a line of nreg times "register" and a
\* line of nmod times "modbus"; the word "the" if there is nothing else
KeywordText(title, nreg, nmod) ==
    LET lines == (IF title = <<>> THEN <<>> ELSE <<title>>)
                 \o (IF nreg = 0 THEN <<>> ELSE <<Repeat("register", nreg)>>)
                 \o (IF nmod = 0 THEN <<>> ELSE <<Repeat("modbus", nmod)>>)
    IN IF lines = <<>> THEN << <<"the">> >> ELSE lines

\* tables of score 1.0, 2.0 (by the header, by an address row) and 2.5
Table10 == << <<None, "", "Name">>, <<"Volts">> >>
Table20 == << <<"Type", "Name">>, <<"Volts">> >>
Table20Address == << <<>>, <<"40001">> >>
Table25 == << <<"Address">>, <<"Volts">> >>

TableLists ==
    { <<>>, <<Table10>>, <<Table20>>, <<Table25>>, <<Table20, Table25>>,
      <<Table25, Table20Address, RegisterTable>> }

InitScore ==
    /\ pc = "rank"
    /\ \E title \in {<<>>, <<"APPENDIX", "A">>}, nreg \in 0..MaxRegisterWords,
          nmod \in 0..MaxModbusWords, tables \in TableLists :
          structured_data =
             << PageData(1, [text |-> KeywordText(title, nreg, nmod), tables |-> tables]) >>
    /\ chunks = <<>>
    /\ document_hints = <<>>
    /\ max_tokens = 0
    /\ max_chars = 0
    /\ high_relevance = <<>>
    /\ medium_relevance = <<>>
    /\ low_relevance = <<>>
    /\ context_parts = <<>>
    /\ current_length = 0
    /\ included_pages = <<>>
    /\ idx = 1
    /\ outcome = "none"
    /\ context_text = <<>>
    /\ chunk_info = NoSummary
    /\ ReconcileIdle
    /\ TableIdle
    /\ HandlerIdle

SpecScore == InitScore /\ [][Rank]_vars

-----------------------------------------------------------------------------
(* _score_table_structure on tables as pdfplumber gives them: cells that
   are None or empty, rows of different lengths, rows that are empty or
   None *)

\* table_score = _score_table_structure(table["raw"])
ScoreTable ==
    /\ pc = "score"
    /\ table_score' = IF ScoreRaises(raw_table)
                      THEN [outcome |-> "TypeError", value |-> 0]
                      ELSE [outcome |-> "returned", value |-> score_table_structure(raw_table)]
    /\ pc' = "scored"
    /\ UNCHANGED <<raw_table, inputVars, tierVars, walkVars, idx, resultVars>>
    /\ UNCHANGED <<reconcileVars, handlerVars>>

\* header rows: register columns, columns worth 2.0 together, one column,
\* no cell, None, missing cells
TableHeaders ==
    { <<"Address", "Name", "Type", "R/W">>, <<"Type", "Name">>, <<"Address">>,
      <<>>, NoneRow, <<None, "", "Name">> }

\* data rows with an address in column 1, in column 3 behind missing
\* cells, in column 4, in columns 1 and 2
AddressRowKinds == {"col1", "col3", "col4", "both"}

AddressRow(kind) ==
    CASE kind = "col1" -> <<"40001", "Volts">>
      [] kind = "col3" -> <<None, "", "40002">>
      [] kind = "col4" -> <<"Volts", None, "", "40003">>
      [] OTHER -> <<"40001", "0x10", "Volts">>

\* data rows without address: a cell, no cell, None, a None cell
FillerRow(i) ==
    CASE i % 4 = 1 -> <<"Volts">>
      [] i % 4 = 2 -> <<>>
      [] i % 4 = 3 -> NoneRow
      [] OTHER -> <<None>>

\* a header and n data rows, na of them from row first on with an address
MakeTable(header, n, first, na, kind) ==
    <<header>> \o [i \in 1..n |-> IF i >= first /\ i < first + na
                                  THEN AddressRow(kind) ELSE FillerRow(i)]

\* numbers of data rows around the sizes 10 and 20 and the 9 rows examined
DataRowCounts == {0, 1, 9, 10, 19, 20}

\* first address row: in front, at the end of the rows examined, behind them
FirstAddressRows == {1, 8, 10}

InitTables ==
    /\ pc = "score"
    /\ \/ raw_table = <<>>
       \/ \E header \in TableHeaders, n \in DataRowCounts, first \in FirstAddressRows,
             na \in 0..MaxAddrRows, kind \in AddressRowKinds :
             raw_table = MakeTable(header, n, first, na, kind)
    /\ table_score = NoScore
    /\ RankIdle
    /\ ReconcileIdle
    /\ HandlerIdle

SpecTables == InitTables /\ [][ScoreTable]_vars

-----------------------------------------------------------------------------
(* assemble_extraction_context *)

\* int(max_tokens * chars_per_token), chars_per_token = 3.5
MaxCharsOf(mt) == (mt * 35) \div 10

IsHigh(c) == c.relevance_score > HighThreshold

\* the MEDIUM test with its upper bound made strict
IsMedium_Strict(c) ==
    MediumThreshold < c.relevance_score /\ c.relevance_score < HighThreshold

IsMedium(c) == MediumThreshold < c.relevance_score /\ c.relevance_score <= HighThreshold

\* the LOW test reaching up to the HIGH threshold
IsLow_Overlapping(c) == c.relevance_score <= HighThreshold

IsLow(c) == c.relevance_score <= MediumThreshold

\* len(chunk_text) of the HIGH block
HighBlockLen(c) ==
    HighHeadLen + Digits(c.page_number) + ScoreStrLen(c.relevance_score)
    + (IF NonEmpty(c.section_title)
       THEN SectionLineLen + LineLen(c.section_title) ELSE 0)
    + c.text_len

MediumBlockLen(c) == MediumHeadLen + Digits(c.page_number) + c.text_len

LowBlockLen(c) == LowHeadLen + Digits(c.page_number) + c.text_len

\* the HIGH test made strict
FitsHigh_Strict(cur, len, mc) == cur + len < mc

\* current_length + len(chunk_text) <= max_chars
FitsHigh(cur, len, mc) == cur + len <= mc

\* the MEDIUM test against the whole budget
FitsMedium_Full(cur, len, mc) == cur + len <= mc

\* current_length + len(chunk_text) <= max_chars * 0.85
FitsMedium(cur, len, mc) == (cur + len) * 100 <= mc * MediumCeilPct

\* current_length + len(chunk_text) <= max_chars * 0.6
FitsLow(cur, len, mc) == (cur + len) * 100 <= mc * LowCeilPct

\* the fallback test without the count of HIGH chunks
LowGate_AnyHigh(nhigh, cur, mc) == cur * 100 < mc * LowGatePct

\* len(high_relevance) < 3 and current_length < max_chars * 0.4
LowGate(nhigh, cur, mc) == nhigh < LowGateHigh /\ cur * 100 < mc * LowGatePct

\* low_relevance[:10]
LowSlice(low) == SubSeq(low, 1, IF Len(low) < LowLimit THEN Len(low) ELSE LowLimit)

RECURSIVE InsertAsc(_, _)
InsertAsc(x, s) ==
    IF s = <<>> THEN <<x>>
    ELSE IF x < Head(s) THEN <<x>> \o s
    ELSE <<Head(s)>> \o InsertAsc(x, Tail(s))

\* the page list left in walk order
Sorted_WalkOrder(s) == s

RECURSIVE Sorted(_)
\* sorted(included_pages)
Sorted(s) == IF s = <<>> THEN <<>> ELSE InsertAsc(Head(s), Sorted(Tail(s)))

\* lines 430-447: budget, tiers, then the hint preamble, whose
\* set(document_hints)[:5] raises TypeError for every non-empty hint list
AssembleStart ==
    /\ pc = "assemble"
    /\ max_chars' = MaxCharsOf(max_tokens)
    /\ high_relevance' = SelectSeq(chunks, IsHigh)
    /\ medium_relevance' = SelectSeq(chunks, IsMedium)
    /\ low_relevance' = SelectSeq(chunks, IsLow)
    /\ IF document_hints # <<>>
       THEN /\ outcome' = "TypeError"
            /\ pc' = "done"
       ELSE /\ outcome' = outcome
            /\ pc' = "high"
    /\ context_parts' = <<>>
    /\ current_length' = 0
    /\ included_pages' = <<>>
    /\ idx' = 1
    /\ UNCHANGED <<reconcileVars, tableVars, handlerVars>>
    /\ UNCHANGED <<inputVars, context_text, chunk_info>>

\* a block put in front of the parts gathered so far
AppendPart_Front(parts, p) == <<p>> \o parts

\* context_parts.append(chunk_text)
AppendPart(parts, p) == Append(parts, p)

\* the body of one of the three for loops, for the chunk c of block length len
Visit(c, kind, len, fits) ==
    /\ IF fits
       THEN /\ context_parts' = AppendPart(context_parts,
                                           [kind |-> kind, page |-> c.page_number, len |-> len])
            /\ current_length' = current_length + len
            /\ included_pages' = Append(included_pages, c.page_number)
       ELSE UNCHANGED <<context_parts, current_length, included_pages>>
    /\ idx' = idx + 1

\* lines 450-459
HighStep ==
    /\ pc = "high"
    /\ idx <= Len(high_relevance)
    /\ LET c == high_relevance[idx]
       IN Visit(c, "HIGH", HighBlockLen(c),
                FitsHigh(current_length, HighBlockLen(c), max_chars))
    /\ UNCHANGED <<reconcileVars, tableVars, handlerVars>>
    /\ UNCHANGED <<pc, inputVars, tierVars, resultVars>>

HighDone ==
    /\ pc = "high"
    /\ idx > Len(high_relevance)
    /\ pc' = "medium"
    /\ idx' = 1
    /\ UNCHANGED <<reconcileVars, tableVars, handlerVars>>
    /\ UNCHANGED <<inputVars, tierVars, walkVars, resultVars>>

\* lines 462-468
MediumStep ==
    /\ pc = "medium"
    /\ idx <= Len(medium_relevance)
    /\ LET c == medium_relevance[idx]
       IN Visit(c, "MEDIUM", MediumBlockLen(c),
                FitsMedium(current_length, MediumBlockLen(c), max_chars))
    /\ UNCHANGED <<reconcileVars, tableVars, handlerVars>>
    /\ UNCHANGED <<pc, inputVars, tierVars, resultVars>>

\* line 471: the fallback test, made once after the MEDIUM walk
MediumDone ==
    /\ pc = "medium"
    /\ idx > Len(medium_relevance)
    /\ pc' = IF LowGate(Len(high_relevance), current_length, max_chars)
             THEN "low" ELSE "summary"
    /\ idx' = 1
    /\ UNCHANGED <<reconcileVars, tableVars, handlerVars>>
    /\ UNCHANGED <<inputVars, tierVars, walkVars, resultVars>>

\* lines 472-477
LowStep ==
    /\ pc = "low"
    /\ idx <= Len(LowSlice(low_relevance))
    /\ LET c == LowSlice(low_relevance)[idx]
       IN Visit(c, "LOW", LowBlockLen(c),
                FitsLow(current_length, LowBlockLen(c), max_chars))
    /\ UNCHANGED <<reconcileVars, tableVars, handlerVars>>
    /\ UNCHANGED <<pc, inputVars, tierVars, resultVars>>

LowDone ==
    /\ pc = "low"
    /\ idx > Len(LowSlice(low_relevance))
    /\ pc' = "summary"
    /\ idx' = 1
    /\ UNCHANGED <<reconcileVars, tableVars, handlerVars>>
    /\ UNCHANGED <<inputVars, tierVars, walkVars, resultVars>>

\* lines 480-486
SummaryOf(all, high, medium, low, pages, size) ==
    [total |-> Len(all), high |-> Len(high), medium |-> Len(medium),
     low |-> Len(low), included |-> Sorted(pages), size |-> size]

\* lines 479-490
AssembleReturn ==
    /\ pc = "summary"
    /\ chunk_info' = SummaryOf(chunks, high_relevance, medium_relevance,
                               low_relevance, included_pages, current_length)
    /\ context_text' = context_parts
    /\ outcome' = "returned"
    /\ pc' = "done"
    /\ UNCHANGED <<reconcileVars, tableVars, handlerVars>>
    /\ UNCHANGED <<inputVars, tierVars, walkVars, idx>>

-----------------------------------------------------------------------------
(* Ranked chunk lists given to assemble_extraction_context *)

TierOfPos(i, nh, nm) == IF i <= nh THEN "HIGH" ELSE IF i <= nh + nm THEN "MEDIUM" ELSE "LOW"

\* rank of the chunk inside its tier
PosInTier(i, nh, nm) == IF i <= nh THEN i ELSE IF i <= nh + nm THEN i - nh ELSE i - nh - nm

\* descending along the list, the tier boundaries 8.0 and 3.0 included
ScoreOfPos(i, nh, nm) ==
    LET t == TierOfPos(i, nh, nm)
        j == PosInTier(i, nh, nm)
    IN CASE t = "HIGH" -> IF j = 1 THEN 125 ELSE 81
         [] t = "MEDIUM" -> IF j = 1 THEN 80 ELSE 31
         [] OTHER -> IF j = 1 THEN 30 ELSE 0

\* LOW pages come first in the document, HIGH pages last
PageOfPos(i, nh, nm, nl) ==
    LET t == TierOfPos(i, nh, nm)
        j == PosInTier(i, nh, nm)
        n == CASE t = "HIGH" -> nh [] t = "MEDIUM" -> nm [] OTHER -> nl
        base == CASE t = "HIGH" -> nl + nm [] t = "MEDIUM" -> nl [] OTHER -> 0
    IN base + (IF j = 1 THEN n ELSE j - 1)

TitleOfPos(i, nh, nm) ==
    IF TierOfPos(i, nh, nm) = "HIGH" /\ PosInTier(i, nh, nm) % 2 = 1
    THEN <<"APPENDIX", "A">> ELSE NoTitle

SizeKinds == {"empty", "fit", "gate", "rest", "past", "over"}

Clamp(n) == IF n < 0 THEN 0 ELSE n

\* the largest block length within the tier's ceiling
CeilingOf(tier, mc) ==
    CASE tier = "HIGH" -> mc
      [] tier = "MEDIUM" -> (mc * MediumCeilPct) \div 100
      [] OTHER -> (mc * LowCeilPct) \div 100

\* a text length: empty, or making a block that fills the tier's ceiling
\* exactly, that fills the fallback gate exactly, that fills the ceiling
\* exactly behind a block filling the gate, that is one character past the
\* ceiling behind such a block, or that is one character over the tier's
\* ceiling on its own
TextLenOf(kind, tier, head, mc) ==
    CASE kind = "empty" -> 0
      [] kind = "fit" -> Clamp(CeilingOf(tier, mc) - head)
      [] kind = "gate" -> Clamp((mc * LowGatePct) \div 100 - head)
      [] kind = "rest" -> Clamp(CeilingOf(tier, mc) - (mc * LowGatePct) \div 100 - head)
      [] kind = "past" -> Clamp(CeilingOf(tier, mc) + 1 - (mc * LowGatePct) \div 100 - head)
      [] OTHER -> Clamp(CeilingOf(tier, mc) + 1 - head)

MakeChunk(i, nh, nm, nl, pat, mc) ==
    LET t == TierOfPos(i, nh, nm)
        bare == [text_len |-> 0,
                 contains_table |-> t = "HIGH",
                 page_number |-> PageOfPos(i, nh, nm, nl),
                 relevance_score |-> ScoreOfPos(i, nh, nm),
                 section_title |-> TitleOfPos(i, nh, nm)]
        head == CASE t = "HIGH" -> HighBlockLen(bare)
                  [] t = "MEDIUM" -> MediumBlockLen(bare)
                  [] OTHER -> LowBlockLen(bare)
    IN [bare EXCEPT !.text_len = TextLenOf(pat[(i % PatLen) + 1], t, head, mc)]

MakeChunks(nh, nm, nl, pat, mc) ==
    [i \in 1..(nh + nm + nl) |-> MakeChunk(i, nh, nm, nl, pat, mc)]

LowCounts == {n \in 0..MaxLow : n <= MaxSmallLow \/ n >= LowLimit}

\* budgets from nothing, through one smaller than any HIGH header, to one
\* that takes blocks of the three tiers; even and odd token counts, an odd
\* one giving a half character to drop
TokenBudgets == {k * k * TokenStep + (k % 2) : k \in 0..MaxTokenSteps}

HintPool == <<"h1", "h2", "h1", "h3">>

HintLists == {SubSeq(HintPool, 1, k) : k \in 0..(IF MaxHints < Len(HintPool) THEN MaxHints ELSE Len(HintPool))}

InitAssemble ==
    /\ pc = "assemble"
    /\ structured_data = <<>>
    /\ \E nh \in 0..MaxHigh, nm \in 0..MaxMedium, nl \in LowCounts,
          pat \in [1..PatLen -> SizeKinds], mt \in TokenBudgets :
          /\ max_tokens = mt
          /\ chunks = MakeChunks(nh, nm, nl, pat, MaxCharsOf(mt))
    /\ document_hints \in HintLists
    /\ max_chars = 0
    /\ high_relevance = <<>>
    /\ medium_relevance = <<>>
    /\ low_relevance = <<>>
    /\ context_parts = <<>>
    /\ current_length = 0
    /\ included_pages = <<>>
    /\ idx = 1
    /\ outcome = "none"
    /\ context_text = <<>>
    /\ chunk_info = NoSummary
    /\ ReconcileIdle
    /\ TableIdle
    /\ HandlerIdle

NextAssemble ==
    \/ AssembleStart
    \/ HighStep
    \/ HighDone
    \/ MediumStep
    \/ MediumDone
    \/ LowStep
    \/ LowDone
    \/ AssembleReturn

SpecAssemble == InitAssemble /\ [][NextAssemble]_vars

-----------------------------------------------------------------------------
(* The pipeline of ai_parse_data, lines 784-796: ranking, then assembly of
   the ranked chunks with the default budget *)

\* lines 790-794: assemble_extraction_context(chunks, document_hints); the
\* texts of the sample pages match no pattern of _extract_document_hints,
\* so the hint list of the document is empty
CallAssemble ==
    /\ pc = "ranked"
    /\ max_tokens' = DefaultMaxTokens
    /\ pc' = "assemble"
    /\ UNCHANGED <<reconcileVars, tableVars, handlerVars>>
    /\ UNCHANGED <<structured_data, chunks, document_hints, tierVars, walkVars,
                   idx, resultVars>>

NextPipeline ==
    \/ Rank
    \/ CallAssemble
    \/ NextAssemble

SpecPipeline == InitRank /\ [][NextPipeline]_vars

\* The register-map document of three pages: page 1 without keyword and
\* without table, page 2 with one table under the header Address, Name,
\* Type, R/W and ScenarioRows rows with an address in the first column,
\* page 3 with n lines that each mention "register" once and no table
MentionLines(n) == [i \in 1..n |-> <<"the", "register">>]

PlainTexts == { << <<"the">> >>, << <<"the">>, <<"Volts", "the">> >>, << <<>> >> }

RegisterMapTable ==
    MakeTable(<<"Address", "Name", "Type", "R/W">>, ScenarioRows, 1, ScenarioRows, "col1")

InitScenario ==
    /\ pc = "rank"
    /\ \E plain \in PlainTexts, n \in 1..MaxMentions :
          structured_data =
             << PageData(1, [text |-> plain, tables |-> <<>>]),
                PageData(2, [text |-> << <<"the">> >>, tables |-> <<RegisterMapTable>>]),
                PageData(3, [text |-> MentionLines(n), tables |-> <<>>]) >>
    /\ chunks = <<>>
    /\ document_hints = <<>>
    /\ max_tokens = 0
    /\ max_chars = 0
    /\ high_relevance = <<>>
    /\ medium_relevance = <<>>
    /\ low_relevance = <<>>
    /\ context_parts = <<>>
    /\ current_length = 0
    /\ included_pages = <<>>
    /\ idx = 1
    /\ outcome = "none"
    /\ context_text = <<>>
    /\ chunk_info = NoSummary
    /\ ReconcileIdle
    /\ TableIdle
    /\ HandlerIdle

SpecScenario == InitScenario /\ [][NextPipeline]_vars

-----------------------------------------------------------------------------
(* The /parse handler: parse_pdf of main.py *)

\* file.filename is None
NoneName == <<"<None>">>

\* truthiness of file.filename, a sequence of characters: None and "" are false
NameTruthy(name) == name # <<>> /\ name # NoneName

\* c.lower() of a character of the file names
LowerChar(c) ==
    CASE c = "A" -> "a"
      [] c = "P" -> "p"
      [] c = "D" -> "d"
      [] c = "F" -> "f"
      [] OTHER -> c

\* name.lower()
LowerName(name) == [i \in 1..Len(name) |-> LowerChar(name[i])]

\* the suffix looked for anywhere in s
EndsWith_Anywhere(s, suffix) ==
    \E i \in 1..Len(s) : i + Len(suffix) - 1 <= Len(s) /\ SubSeq(s, i, i + Len(suffix) - 1) = suffix

\* s.endswith(suffix)
EndsWith(s, suffix) ==
    Len(s) >= Len(suffix) /\ SubSeq(s, Len(s) - Len(suffix) + 1, Len(s)) = suffix

DotPdf == <<".", "p", "d", "f">>

\* max_size = 50 * 1024 * 1024
MaxUploadSize == 50 * 1024 * 1024

\* the text extract_text_from_pdf joins from n pages: for every page a
\* newline, the page marker and the page text, a newline between the pages
PageBlock == <<"\n", "--- Page ---", "\n", "the", "\n">>

RECURSIVE JoinPages(_)
JoinPages(n) ==
    IF n = 0 THEN <<>>
    ELSE IF n = 1 THEN PageBlock
    ELSE PageBlock \o <<"\n">> \o JoinPages(n - 1)

IsSpace(c) == c \in {"\n", " "}

RECURSIVE LStrip(_)
LStrip(s) == IF s # <<>> /\ IsSpace(Head(s)) THEN LStrip(Tail(s)) ELSE s

RECURSIVE RStrip(_)
RStrip(s) ==
    IF s # <<>> /\ IsSpace(s[Len(s)]) THEN RStrip(SubSeq(s, 1, Len(s) - 1)) ELSE s

\* s.strip()
Strip(s) == RStrip(LStrip(s))

\* raise HTTPException(status_code, detail) that leaves the handler
Reply(status, detail) == [status |-> status, detail |-> detail]

\* the except clauses of the try block, for an exception of class exc raised
\* inside it: ValueError is answered with 400 and its message, every other
\* subclass of Exception, HTTPException among them, with 500
Caught(exc, message) ==
    IF exc = "ValueError" THEN Reply(400, message)
    ELSE Reply(500, "An unexpected error occurred")

\* lines 92-99
CheckFilename ==
    /\ pc = "request"
    /\ IF ~NameTruthy(request.filename)
       THEN response' = Reply(400, "No file provided") /\ pc' = "replied"
       ELSE IF ~EndsWith(LowerName(request.filename), DotPdf)
       THEN response' = Reply(400, "Invalid file type") /\ pc' = "replied"
       ELSE response' = response /\ pc' = "read"
    /\ UNCHANGED <<request, backend, started>>
    /\ UNCHANGED <<inputVars, tierVars, walkVars, idx, resultVars, reconcileVars, tableVars>>

\* lines 102-108
ReadContent ==
    /\ pc = "read"
    /\ IF request.size > MaxUploadSize
       THEN response' = Reply(400, "File too large") /\ pc' = "replied"
       ELSE response' = response /\ pc' = "extract"
    /\ UNCHANGED <<request, backend, started>>
    /\ UNCHANGED <<inputVars, tierVars, walkVars, idx, resultVars, reconcileVars, tableVars>>

\* line 115, with the except clauses for what extract_text_from_pdf raises
ExtractText ==
    /\ pc = "extract"
    /\ started' = started \cup {"extract"}
    /\ IF backend.extract = "ValueError"
       THEN response' = Caught("ValueError", "Failed to extract text from PDF")
            /\ pc' = "replied"
       ELSE response' = response /\ pc' = "extracted"
    /\ UNCHANGED <<request, backend>>
    /\ UNCHANGED <<inputVars, tierVars, walkVars, idx, resultVars, reconcileVars, tableVars>>

\* lines 117-121: the HTTPException is raised inside the try block
CheckExtracted ==
    /\ pc = "extracted"
    /\ IF Strip(JoinPages(backend.pages)) = <<>>
       THEN response' = Caught("HTTPException", "Could not extract any text from the PDF")
            /\ pc' = "replied"
       ELSE response' = response /\ pc' = "parse"
    /\ UNCHANGED <<request, backend, started>>
    /\ UNCHANGED <<inputVars, tierVars, walkVars, idx, resultVars, reconcileVars, tableVars>>

\* lines 125-160
AiParse ==
    /\ pc = "parse"
    /\ started' = started \cup {"ai"}
    /\ response' =
         CASE backend.parse = "ValueError" -> Caught("ValueError", "AI parsing failed")
           [] backend.parse = "Exception" -> Caught("Exception", "")
           [] backend.parse = "empty" -> Reply(200, "No Modbus registers found in the document.")
           [] OTHER -> Reply(200, "Successfully extracted registers.")
    /\ pc' = "replied"
    /\ UNCHANGED <<request, backend>>
    /\ UNCHANGED <<inputVars, tierVars, walkVars, idx, resultVars, reconcileVars, tableVars>>

FileNames ==
    { NoneName, <<>>,
      <<"a", ".", "p", "d", "f">>, <<"A", ".", "P", "D", "F">>, <<"a", ".", "P", "d", "f">>,
      <<".", "p", "d", "f">>, <<"a", ".", "t", "x", "t">>, <<"p", "d", "f">>,
      <<"a", ".", "p", "d", "f", ".", "t", "x", "t">> }

\* body sizes at the limit and on either side of it
BodySizes == {0, MaxUploadSize - 1, MaxUploadSize, MaxUploadSize + 1}

InitParse ==
    /\ pc = "request"
    /\ \E name \in FileNames, size \in BodySizes :
          request = [filename |-> name, size |-> size]
    /\ \E n \in 0..MaxDocPages, e \in {"returned", "ValueError"},
          p \in {"registers", "empty", "ValueError", "Exception"} :
          backend = [pages |-> n, extract |-> e, parse |-> p]
    /\ started = {}
    /\ response = NoResponse
    /\ RankIdle
    /\ ReconcileIdle
    /\ TableIdle

NextParse ==
    \/ CheckFilename
    \/ ReadContent
    \/ ExtractText
    \/ CheckExtracted
    \/ AiParse

SpecParse == InitParse /\ [][NextParse]_vars

-----------------------------------------------------------------------------
(* Properties of assemble_extraction_context *)

Returned == pc = "done" /\ outcome = "returned"

PagesOf(s) == {s[i].page_number : i \in 1..Len(s)}

IsHintsPart(p) == p.kind = "HINTS"
IsHighPart(p) == p.kind = "HIGH"
IsMediumPart(p) == p.kind = "MEDIUM"
IsLowPart(p) == p.kind = "LOW"
IsPagePart(p) == p.kind \in {"HIGH", "MEDIUM", "LOW"}

RECURSIVE Distinct(_, _)
\* the hints in discovery order, later copies of a hint removed
Distinct(hints, seen) ==
    IF hints = <<>> THEN <<>>
    ELSE IF Head(hints) \in seen THEN Distinct(Tail(hints), seen)
    ELSE <<Head(hints)>> \o Distinct(Tail(hints), seen \cup {Head(hints)})

FirstFive(s) == SubSeq(s, 1, IF Len(s) < 5 THEN Len(s) ELSE 5)

RECURSIVE JoinedLen(_)
\* len("\n".join(s))
JoinedLen(s) ==
    IF s = <<>> THEN 0
    ELSE IF Len(s) = 1 THEN StrLen(s[1])
    ELSE StrLen(Head(s)) + 1 + JoinedLen(Tail(s))

\* the preamble the hint list calls for
PreambleOf(hints) ==
    [kind |-> "HINTS", page |-> 0, hints |-> FirstFive(Distinct(hints, {})),
     len |-> HintsHeadLen + JoinedLen(FirstFive(Distinct(hints, {}))) + 1]

\* C1: whatever the chunks, the hints and the budget, the call returns a
\* context whose length is at most max_chars, a hint preamble included
C1_BudgetRespected ==
    pc = "done" => (outcome = "returned" /\ SumLens(context_text) <= max_chars)

\* C2: with max_chars 0, or smaller than the hint preamble, the call raises
\* nothing and returns the hint preamble when hints were given, the empty
\* string otherwise, and no page block
C2_TinyBudget ==
    (/\ pc = "done"
     /\ \/ max_chars = 0
        \/ document_hints # <<>> /\ max_chars < PreambleOf(document_hints).len)
    => /\ outcome = "returned"
       /\ context_text = IF document_hints = <<>> THEN <<>>
                         ELSE <<PreambleOf(document_hints)>>

\* C3: a non-empty hint list puts a preamble first in the context, listing
\* the distinct hints, at most the first 5, in discovery order
C3_HintPreamble ==
    (pc = "done" /\ document_hints # <<>>)
    => /\ outcome = "returned"
       /\ context_text # <<>>
       /\ context_text[1] = PreambleOf(document_hints)
       /\ \A i \in 2..Len(context_text) : IsPagePart(context_text[i])

\* the block of chunk c in the tier's layout, whole
BlockOf(c, tier) ==
    [kind |-> tier, page |-> c.page_number,
     len |-> CASE tier = "HIGH" -> HighBlockLen(c)
               [] tier = "MEDIUM" -> MediumBlockLen(c)
               [] OTHER -> LowBlockLen(c)]

\* the ceiling of a tier walk, as a fraction num/20 of max_chars
CeilNum(tier) == CASE tier = "HIGH" -> 20 [] tier = "MEDIUM" -> 17 [] OTHER -> 12

RECURSIVE Walk(_, _, _, _)
\* the blocks a walk over s appends when acc characters are already in:
\* each chunk in turn, its block whole if acc + len is within the ceiling,
\* nothing otherwise, and on to the next chunk
Walk(s, acc, tier, mc) ==
    IF s = <<>> THEN <<>>
    ELSE LET b == BlockOf(Head(s), tier)
         IN IF (acc + b.len) * 20 <= mc * CeilNum(tier)
            THEN <<b>> \o Walk(Tail(s), acc + b.len, tier, mc)
            ELSE Walk(Tail(s), acc, tier, mc)

Prefix(s, n) == SubSeq(s, 1, n)

\* the chunks of each tier, in ranked order
HighOf(s) == SelectSeq(s, LAMBDA c : c.relevance_score > 80)
MediumOf(s) == SelectSeq(s, LAMBDA c : c.relevance_score > 30 /\ c.relevance_score <= 80)
LowOf(s) == SelectSeq(s, LAMBDA c : c.relevance_score <= 30)

\* C4: the HIGH walk visits the HIGH chunks in ranked order and appends a
\* chunk's whole block iff accumulated length + block length <= max_chars;
\* a block that does not fit is skipped and the walk goes on
C4_HighWalk ==
    /\ pc = "high" =>
         context_parts = Walk(Prefix(HighOf(chunks), idx - 1), 0, "HIGH", max_chars)
    /\ (pc \in {"medium", "low", "summary"} \/ Returned) =>
         SelectSeq(context_parts, IsHighPart) = Walk(HighOf(chunks), 0, "HIGH", max_chars)

\* a HIGH block was skipped and a later, smaller HIGH block was appended
C4_Witness ==
    /\ pc = "medium"
    /\ \E i, j \in 1..Len(high_relevance) :
          /\ i < j
          /\ \A k \in 1..Len(included_pages) : included_pages[k] # high_relevance[i].page_number
          /\ \E k \in 1..Len(included_pages) : included_pages[k] = high_relevance[j].page_number

\* C5: the MEDIUM walk starts after the whole HIGH walk, visits the MEDIUM
\* chunks in ranked order and appends a chunk's whole block iff accumulated
\* length + block length <= 0.85 * max_chars, skipping the others
C5_MediumWalk ==
    LET highLen == SumLens(SelectSeq(context_parts, IsHighPart))
    IN /\ pc = "high" => SelectSeq(context_parts, IsMediumPart) = <<>>
       /\ pc = "medium" =>
            /\ SelectSeq(context_parts, IsHighPart) = Walk(HighOf(chunks), 0, "HIGH", max_chars)
            /\ context_parts = SelectSeq(context_parts, IsHighPart)
                 \o Walk(Prefix(MediumOf(chunks), idx - 1), highLen, "MEDIUM", max_chars)
       /\ (pc \in {"low", "summary"} \/ Returned) =>
            SelectSeq(context_parts, IsMediumPart)
              = Walk(MediumOf(chunks), highLen, "MEDIUM", max_chars)

\* a MEDIUM block was skipped and a later MEDIUM block appended, after a
\* HIGH block
C5_Witness ==
    /\ Returned
    /\ SelectSeq(context_text, IsHighPart) # <<>>
    /\ \E i, j \in 1..Len(medium_relevance) :
          /\ i < j
          /\ \A k \in 1..Len(included_pages) : included_pages[k] # medium_relevance[i].page_number
          /\ \E k \in 1..Len(included_pages) : included_pages[k] = medium_relevance[j].page_number

\* C6: LOW chunks get in only with fewer than 3 HIGH chunks and less than
\* 0.4 * max_chars accumulated after the HIGH and MEDIUM walks; then the
\* first 10 LOW chunks in ranked order are walked against 0.6 * max_chars
C6_LowFallback ==
    LET before == SumLens(SelectSeq(context_parts, IsHighPart))
                  + SumLens(SelectSeq(context_parts, IsMediumPart))
        open == Len(HighOf(chunks)) < 3 /\ before * 10 < max_chars * 4
        first == Prefix(LowOf(chunks), IF Len(LowOf(chunks)) < 10 THEN Len(LowOf(chunks)) ELSE 10)
    IN /\ pc \in {"high", "medium"} => SelectSeq(context_parts, IsLowPart) = <<>>
       /\ pc = "low" =>
            /\ open
            /\ SelectSeq(context_parts, IsLowPart)
                 = Walk(Prefix(first, idx - 1), before, "LOW", max_chars)
       /\ (pc = "summary" \/ Returned) =>
            SelectSeq(context_parts, IsLowPart)
              = IF open THEN Walk(first, before, "LOW", max_chars) ELSE <<>>
       /\ Returned /\ Len(HighOf(chunks)) >= 3 => SelectSeq(context_text, IsLowPart) = <<>>

\* ten LOW blocks are in, and the eleventh LOW chunk, which would have fit,
\* is not
C6_Witness ==
    /\ Returned
    /\ Len(low_relevance) > 10
    /\ Len(SelectSeq(context_text, IsLowPart)) = 10
    /\ (current_length + LowBlockLen(low_relevance[11])) * 10 <= max_chars * 6

\* three HIGH chunks, none of which fit: nothing is accumulated, a LOW block
\* would fit, and no LOW block is in
C6_WitnessGate ==
    /\ Returned
    /\ Len(high_relevance) >= 3
    /\ low_relevance # <<>>
    /\ current_length = 0
    /\ LowBlockLen(low_relevance[1]) * 10 <= max_chars * 6

TierRank(kind) == CASE kind = "HIGH" -> 1 [] kind = "MEDIUM" -> 2 [] OTHER -> 3

\* the place of a page in the ranked list
RankOf(page) == CHOOSE k \in 1..Len(chunks) : chunks[k].page_number = page

\* the page blocks of s are tier by tier, and in ranked order inside a tier
TierOrdered(s) ==
    \A i, j \in 1..Len(s) :
       i < j /\ IsPagePart(s[i]) /\ IsPagePart(s[j]) =>
         \/ TierRank(s[i].kind) < TierRank(s[j].kind)
         \/ /\ s[i].kind = s[j].kind
            /\ RankOf(s[i].page) < RankOf(s[j].page)

\* C11: in context_text every HIGH block comes before every MEDIUM block
\* and every MEDIUM block before every LOW block; the blocks of one tier
\* are in ranked order. The parts gathered so far are so ordered at every
\* step of the walks.
C11_TierOrder ==
    /\ TierOrdered(context_parts)
    /\ Returned => TierOrdered(context_text)

\* a returned context with blocks of the three tiers, two of them of one
\* tier and not in page order
C11_Witness ==
    /\ Returned
    /\ SelectSeq(context_text, IsHighPart) # <<>>
    /\ SelectSeq(context_text, IsMediumPart) # <<>>
    /\ SelectSeq(context_text, IsLowPart) # <<>>
    /\ \E i, j \in 1..Len(context_text) :
          /\ i < j
          /\ context_text[i].kind = context_text[j].kind
          /\ context_text[i].page > context_text[j].page

\* the pages of s, in order
PageSeq(s) == [i \in 1..Len(s) |-> s[i].page]

\* the number of places of s that hold x
Times(x, s) == Cardinality({i \in 1..Len(s) : s[i] = x})

\* C12: the summary reports the number of chunks, the number of chunks of
\* each tier, the ascending list of the pages of exactly the appended
\* blocks, and a size equal to the length of the returned context_text
C12_Summary ==
    Returned =>
      /\ chunk_info.total = Len(chunks)
      /\ chunk_info.high = Len(HighOf(chunks))
      /\ chunk_info.medium = Len(MediumOf(chunks))
      /\ chunk_info.low = Len(LowOf(chunks))
      /\ \A i, j \in 1..Len(chunk_info.included) :
            i < j => chunk_info.included[i] <= chunk_info.included[j]
      /\ \A p \in 0..(Len(chunks) + 1) :
            Times(p, chunk_info.included) = Times(p, PageSeq(context_text))
      /\ chunk_info.size = SumLens(context_text)

\* a returned context of several blocks appended in another order than the
\* page order, with chunks in the three tiers, one of them left out
C12_Witness ==
    /\ Returned
    /\ \E i, j \in 1..Len(context_text) :
          i < j /\ context_text[i].page > context_text[j].page
    /\ chunk_info.high > 0 /\ chunk_info.medium > 0 /\ chunk_info.low > 0
    /\ Len(chunk_info.included) < chunk_info.total
    /\ chunk_info.size > 0

-----------------------------------------------------------------------------
(* Properties of score_and_rank_content *)

\* no two chunks share a page number
UniquePages(s) == \A i, j \in 1..Len(s) : s[i].page_number = s[j].page_number => i = j

\* C28: given chunks with unique page numbers, no page number occurs twice
\* in included_pages, every included page number is the page number of an
\* input chunk, and at every step of the walks current_length is the sum of
\* the lengths of the parts appended so far
C28_EachPageOnce ==
    UniquePages(chunks) =>
      /\ \A i, j \in 1..Len(included_pages) : included_pages[i] = included_pages[j] => i = j
      /\ \A i \in 1..Len(included_pages) : included_pages[i] \in PagesOf(chunks)
      /\ current_length = SumLens(context_parts)
      /\ included_pages = PageSeq(context_parts)

\* blocks of all three tiers were appended and a chunk was left out
C28_Witness ==
    /\ Returned
    /\ \E i, j, k \in 1..Len(context_text) :
          /\ IsHighPart(context_text[i])
          /\ IsMediumPart(context_text[j])
          /\ IsLowPart(context_text[k])
    /\ Len(included_pages) < Len(chunks)
    /\ current_length > 0

\* C8: the ranked chunks are in descending relevance_score order, chunks of
\* equal score in ascending page_number order
C8_RankedOrder ==
    pc = "ranked" =>
      \A i, j \in 1..Len(chunks) :
         i < j =>
           \/ chunks[i].relevance_score > chunks[j].relevance_score
           \/ /\ chunks[i].relevance_score = chunks[j].relevance_score
              /\ chunks[i].page_number < chunks[j].page_number

\* the ranking moved a page forward and left two pages of equal score
C8_Witness ==
    /\ pc = "ranked"
    /\ \E i, j \in 1..Len(chunks) :
          i < j /\ chunks[i].relevance_score = chunks[j].relevance_score
    /\ \E i, j \in 1..Len(chunks) :
          i < j /\ chunks[i].page_number > chunks[j].page_number

\* C9: the ranked list holds exactly one chunk for each input page and no
\* other chunk, pages of score 0 included
C9_Lossless ==
    pc = "ranked" =>
      /\ Len(chunks) = Len(structured_data)
      /\ \A i \in 1..Len(structured_data) :
            Cardinality({k \in 1..Len(chunks) :
                           chunks[k].page_number = structured_data[i].page_num}) = 1
      /\ \A k \in 1..Len(chunks) :
            \E i \in 1..Len(structured_data) :
               chunks[k].page_number = structured_data[i].page_num

\* a document of several pages, one of score 0, ranked in another order
\* than the page order
C9_Witness ==
    /\ pc = "ranked"
    /\ Len(structured_data) >= 2
    /\ \E k \in 1..Len(chunks) : chunks[k].relevance_score = 0
    /\ \E i, j \in 1..Len(chunks) :
          i < j /\ chunks[i].page_number > chunks[j].page_number

\* the score the ranking gave to the page of number n
ScoreOfPage(n) ==
    LET k == CHOOSE k \in 1..Len(chunks) : chunks[k].page_number = n
    IN chunks[k].relevance_score

\* C20: adding a strong indicator token to the text of a page, the tables
\* unchanged, never gives a lower relevance score; page 2 is page 1 with
\* the token added
C20_ScoreMonotone ==
    pc = "ranked" /\ Len(structured_data) = 2 => ScoreOfPage(2) >= ScoreOfPage(1)

\* the scenario document: three pages, page 3 mentions "register" 3 times
ScenarioCase ==
    Len(structured_data) = 3 /\ Count("register", Flatten(structured_data[3].text)) = 3

RankedPages == [i \in 1..Len(chunks) |-> chunks[i].page_number]

TiersBuilt == pc \in {"high", "medium", "low", "summary"} \/ Returned

\* in the returned context a block of page p labelled kp comes before a
\* block of page q labelled kq
BlockBefore(kp, p, kq, q) ==
    \E i, j \in 1..Len(context_text) :
       /\ i < j
       /\ context_text[i].kind = kp /\ context_text[i].page = p
       /\ context_text[j].kind = kq /\ context_text[j].page = q

\* C22: for the scenario document the ranked order is [2, 3, 1],
\* page 2 is in tier HIGH, page 3 has a score strictly between 3 and 8 and
\* is in tier MEDIUM, and the context of the default budget holds the HIGH
\* block of page 2 before the MEDIUM block of page 3
C22_ScenarioMedium ==
    ScenarioCase =>
      /\ pc # "rank" =>
           /\ RankedPages = <<2, 3, 1>>
           /\ 30 < ScoreOfPage(3) /\ ScoreOfPage(3) < 80
      /\ TiersBuilt =>
           /\ 2 \in PagesOf(high_relevance)
           /\ 3 \in PagesOf(medium_relevance)
      /\ Returned => BlockBefore("HIGH", 2, "MEDIUM", 3)

\* C21: page analysis never raises on a malformed table: missing cells,
\* rows of different lengths, an empty or a None header row are tolerated
C21_MalformedTableTolerated ==
    pc = "scored" => table_score.outcome = "returned"

\* the data rows, of the first 9, that have an address-shaped cell among
\* their first 3 columns
AddressRowsExamined ==
    {r \in 1..9 :
        /\ r + 1 <= Len(raw_table)
        /\ raw_table[r + 1] \notin {<<>>, NoneRow}
        /\ \E k \in 1..3 : k <= Len(raw_table[r + 1]) /\ AddressWord(raw_table[r + 1][k])}

\* C24: the address bonus is +4.0 for at least 3 such rows, +2.0 for 1 or
\* 2 and 0 for none, a row counted once; the size bonus is +2.0 for more
\* than 20 rows, +1.0 for more than 10 and 0 otherwise
C24_TableBonuses ==
    pc = "scored" /\ table_score.outcome = "returned" /\ Len(raw_table) >= 2 =>
      table_score.value
        = HeadersScore(raw_table[1])
          + (CASE Cardinality(AddressRowsExamined) >= 3 -> 40
               [] Cardinality(AddressRowsExamined) \in {1, 2} -> 20
               [] OTHER -> 0)
          + (CASE Len(raw_table) > 20 -> 20
               [] Len(raw_table) > 10 /\ Len(raw_table) <= 20 -> 10
               [] OTHER -> 0)

\* a table of 21 rows with three address rows, two of them among the 9
\* rows examined: +2.0 and +2.0
C24_Witness ==
    /\ pc = "scored"
    /\ table_score.outcome = "returned"
    /\ Len(raw_table) = 21
    /\ Cardinality(AddressRowsExamined) = 2
    /\ raw_table[11] \notin {<<>>, NoneRow}
    /\ AddressWord(raw_table[11][1])
    /\ table_score.value = HeadersScore(raw_table[1]) + 40

\* the page of a document of one page, and its chunk
OnePage == structured_data[1]
OneChunk == chunks[1]
RankedOne == pc = "ranked" /\ Len(structured_data) = 1

\* the tables of the page that score more than 2.0
MaterialTables == SelectSeq(OnePage.tables, LAMBDA t : score_table_structure(t) > 20)

RECURSIVE SerializedLen(_)
\* the characters the tables of s add: "\n[TABLE DATA]\n" and the text of
\* each, and a line break between two of them
SerializedLen(s) ==
    IF s = <<>> THEN 0
    ELSE 14 + TextLen(table_to_text(Head(s)))
         + (IF Tail(s) = <<>> THEN 0 ELSE 1 + SerializedLen(Tail(s)))

\* the score of the page but for its tables
ScoreButTables ==
    (IF OnePage.has_register_indicators THEN 50 ELSE 0)
    + calculate_keyword_density_score(OnePage.text)
    + TitleBonus(OneChunk.section_title, TextContent(OnePage))
    + PatternBonus(TextContent(OnePage))

RECURSIVE SumScores(_)
SumScores(s) == IF s = <<>> THEN 0 ELSE score_table_structure(Head(s)) + SumScores(Tail(s))

\* C23: every table adds its structure score to the score of the page; the
\* text of a table is appended to the chunk text iff the table scores
\* strictly more than 2.0
C23_MaterialityGate ==
    RankedOne =>
      /\ OneChunk.relevance_score = ScoreButTables + SumScores(OnePage.tables)
      /\ OneChunk.text_len = TextLen(OnePage.text) + SerializedLen(MaterialTables)

\* a page with a table of score exactly 2.0, not appended, and a table of
\* a greater score, appended
C23_Witness ==
    /\ RankedOne
    /\ \E i \in 1..Len(OnePage.tables) : score_table_structure(OnePage.tables[i]) = 20
    /\ Len(MaterialTables) >= 1
    /\ Len(MaterialTables) < Len(OnePage.tables)
    /\ OneChunk.text_len > TextLen(OnePage.text)

\* the number of words of the page text that hold the keyword
Mentions(kw) ==
    Cardinality({i \in 1..Len(Flatten(OnePage.text)) :
                   Occurs(kw, Lower(Flatten(OnePage.text)[i])) > 0})

\* min(occurrence_count * weight, 5.0)
Capped(n, weight) == IF n * weight < 50 THEN n * weight ELSE 50

\* C25: the score is the plain sum of the indicator bonus, the keyword
\* part, the table scores, the title bonuses and the pattern bonuses, with
\* no global cap; a keyword adds min(count * weight, 5.0); the score is
\* never negative
C25_PlainSum ==
    RankedOne =>
      /\ OneChunk.relevance_score
           = (IF OnePage.has_register_indicators THEN 50 ELSE 0)
             + Capped(Mentions("register"), 10) + Capped(Mentions("modbus"), 15)
             + Capped(Mentions("address"), 5) + Capped(Mentions("r/w"), 7)
             + SumScores(OnePage.tables)
             + TitleBonus(OneChunk.section_title, TextContent(OnePage))
             + PatternBonus(TextContent(OnePage))
      /\ OneChunk.relevance_score >= 0
      /\ calculate_keyword_density_score(OnePage.text) <= 50 * Len(keywords)

\* a page that holds "register" 6 times and "modbus" 4 times, each worth
\* 5.0, and scores above 30.0
C25_Witness ==
    /\ RankedOne
    /\ Mentions("register") >= 6
    /\ Mentions("modbus") >= 4
    /\ calculate_keyword_density_score(OnePage.text) = 100
    /\ OneChunk.relevance_score > 300

\* extraction returned a text that is empty or whitespace only
BlankText ==
    /\ "extract" \in started
    /\ backend.extract = "returned"
    /\ \A i \in 1..Len(JoinPages(backend.pages)) : IsSpace(JoinPages(backend.pages)[i])

\* extraction or parsing was called and raised ValueError
ValueErrorRaised ==
    \/ "extract" \in started /\ backend.extract = "ValueError"
    \/ "ai" \in started /\ backend.parse = "ValueError"

\* C26: when the extracted text is empty or whitespace only the handler
\* answers 400 with the detail "Could not extract any text from the PDF...";
\* a ValueError from extraction or parsing gives 400, and only another,
\* unexpected exception gives 500
C26_ErrorStatus ==
    pc = "replied" =>
      /\ BlankText => response = Reply(400, "Could not extract any text from the PDF")
      /\ ValueErrorRaised => response.status = 400
      /\ response.status = 500 => ("ai" \in started /\ backend.parse = "Exception")

\* the last four characters of the name, lower-cased, are ".pdf"
IsPdfName(name) ==
    Len(name) >= 4 /\ LowerName(SubSeq(name, Len(name) - 3, Len(name))) = DotPdf

\* the request the handler has to reject before any processing
BadRequest ==
    \/ request.filename \in {NoneName, <<>>}
    \/ ~IsPdfName(request.filename)
    \/ request.size > MaxUploadSize

\* C27: a request without filename, with a filename that does not end in
\* .pdf whatever the case, or with a body of more than 50 MB is answered
\* with status 400, and neither text extraction nor the AI parsing call is
\* ever started for it
C27_EarlyRejection ==
    (pc # "request" /\ BadRequest) =>
       /\ started = {}
       /\ pc \in {"read", "replied"}
       /\ pc = "replied" => response.status = 400

\* a body one byte over the limit under an upper-case .PDF name was rejected
C27_Witness ==
    /\ pc = "replied"
    /\ request.filename = <<"A", ".", "P", "D", "F">>
    /\ request.size = MaxUploadSize + 1
    /\ response = Reply(400, "File too large")
    /\ started = {}

\* C18: when the page sequence is empty the pipeline of ranking and
\* assembly signals an error to its caller and returns no context
C18_EmptyDocumentSignalled ==
    pc = "done" /\ structured_data = <<>> => outcome # "returned"

-----------------------------------------------------------------------------
(* Properties of validate_and_deduplicate *)

\* the call of validate_and_deduplicate was made and returned a list
Cleaned == pc \in {"validated", "twice", "built"} /\ cleaned.outcome = "returned"

\* the input is a list of dicts
ListOfDicts ==
    /\ registers.kind = "list"
    /\ \A i \in 1..Len(registers.items) : registers.items[i].isdict

\* the item carries an address, an integer that is not negative
HasValidAddress(reg) ==
    reg.isdict /\ reg.address.t \in {"int", "bool"} /\ reg.address.v >= 0

\* C13: an entry whose address is missing, not an integer or negative is
\* discarded: the call returns and no such entry is in the output. Stated
\* for lists of dicts whose names and descriptions are strings or absent.
C13_InvalidAddressDiscarded ==
    (/\ pc = "validated"
     /\ ListOfDicts
     /\ \A i \in 1..Len(registers.items) : ~LenFails(registers.items[i]))
    => /\ cleaned.outcome = "returned"
       /\ \A k \in 1..Len(cleaned.value) : HasValidAddress(cleaned.value[k])

\* the places of the input entries of address a
GroupOf(a) ==
    {i \in 1..Len(registers.items) :
        HasValidAddress(registers.items[i]) /\ registers.items[i].address.v = a}

\* the first place of the group whose len(description) + len(name) is the
\* greatest of the group
FirstBest(group) ==
    CHOOSE i \in group :
       /\ \A j \in group : InfoScore(registers.items[j]) <= InfoScore(registers.items[i])
       /\ \A j \in group :
             InfoScore(registers.items[j]) = InfoScore(registers.items[i]) => i <= j

\* C14: of the input entries that share an address, the entry kept is the
\* one of greatest len(description) + len(name), and of several of them the
\* one met first
C14_MostInformativeKept ==
    Cleaned =>
      /\ \A k \in 1..Len(cleaned.value) :
            LET group == GroupOf(cleaned.value[k].address.v)
            IN /\ group # {}
               /\ cleaned.value[k] = registers.items[FirstBest(group)]
      /\ \A i \in 1..Len(registers.items) :
            HasValidAddress(registers.items[i]) =>
              \E k \in 1..Len(cleaned.value) :
                 cleaned.value[k].address.v = registers.items[i].address.v

\* three entries of one address, the first less informative than the
\* second and the third as informative as the second: the second is kept
C14_Witness ==
    /\ Cleaned
    /\ \E i, j, k \in 1..Len(registers.items) :
          /\ i < j /\ j < k
          /\ {i, j, k} \subseteq GroupOf(registers.items[i].address.v)
          /\ InfoScore(registers.items[i]) < InfoScore(registers.items[j])
          /\ InfoScore(registers.items[j]) = InfoScore(registers.items[k])
          /\ registers.items[j] # registers.items[k]
          /\ \E n \in 1..Len(cleaned.value) : cleaned.value[n] = registers.items[j]

\* C15: the output is in strictly ascending address order: addresses never
\* decrease along it and no address is there twice
C15_StrictlyAscending ==
    Cleaned =>
      \A i, j \in 1..Len(cleaned.value) :
         i < j => cleaned.value[i].address.v < cleaned.value[j].address.v

\* entries of several addresses are returned, met in the input in another
\* order, one of the addresses met twice
C15_Witness ==
    /\ Cleaned
    /\ Len(cleaned.value) >= 2
    /\ \E i, j \in 1..Len(registers.items) :
          /\ i < j
          /\ HasValidAddress(registers.items[i]) /\ HasValidAddress(registers.items[j])
          /\ registers.items[i].address.v > registers.items[j].address.v
    /\ \E i, j \in 1..Len(registers.items) :
          /\ i < j
          /\ HasValidAddress(registers.items[i]) /\ HasValidAddress(registers.items[j])
          /\ registers.items[i].address.v = registers.items[j].address.v

\* C29: the call neither invents nor loses addresses: it returns, every
\* output entry is one of the input entries, unchanged, and the set of the
\* addresses of the output is the set of the non-negative integer addresses
\* of the input
C29_AddressesPreserved ==
    (pc = "validated" /\ ListOfDicts) =>
       /\ cleaned.outcome = "returned"
       /\ \A k \in 1..Len(cleaned.value) :
             \E i \in 1..Len(registers.items) : cleaned.value[k] = registers.items[i]
       /\ {cleaned.value[k].address.v : k \in 1..Len(cleaned.value)}
            = {registers.items[i].address.v :
                 i \in {j \in 1..Len(registers.items) : HasValidAddress(registers.items[j])}}

\* C16: for every list L the call on L followed by a copy of L returns the
\* sequence of entries the call on L returns
C16_Idempotent ==
    pc = "twice" /\ cleaned.outcome = "returned" => cleaned_twice = cleaned

\* C17: an entry with absent or ill-typed fields never makes the batch
\* fail: for a list of dicts ai_parse_data returns a table, of well-formed
\* entries only
C17_MalformedDiscarded ==
    pc = "built" /\ ListOfDicts =>
      /\ register_table.outcome = "returned"
      /\ \A k \in 1..Len(register_table.value) : ValidRegister(register_table.value[k])

\* C19: an input that is not a sequence of record-like values gives an
\* error and no result
C19_MalformedOutputSignalled ==
    pc \in {"validated", "built"} /\ ~ListOfDicts =>
      /\ cleaned.outcome # "returned"
      /\ pc = "built" => register_table.outcome # "returned"

====
